---- MODULE Spec2Model ----
(***************************************************************************)
(* Model of src/publish.rs: the release-order resolver (mod release_order) *)
(* and the publish pipeline that drives it (Publish::run).                 *)
(*                                                                         *)
(* A Package is a record [name, dependencies, publish]: `dependencies` is  *)
(* the declared list of dependency names (Dependency reduced to its `name` *)
(* field, the only one the code reads) and `publish` is TRUE exactly when  *)
(* `p.publish.is_none()`.  Package names are the numbers 1..n in workspace *)
(* order; a dependency name that no workspace package carries (0, or a     *)
(* number above n) is a crate from outside the workspace.                  *)
(*                                                                         *)
(* The recursion of release_order_inner is modelled by an explicit call    *)
(* stack: a frame [pkg, d] is an activation that has executed lines 76-79  *)
(* and whose `for d in &pkg.dependencies` loop will examine dependency     *)
(* number d next.                                                          *)
(***************************************************************************)
EXTENDS Integers, Sequences, FiniteSets

\* Largest number of workspace packages.
MaxPkgs == 3
\* Largest total number of declared dependency entries in the workspace.
MaxDeps == 4
\* The same for the workspaces on which termination is checked.
MaxFairDeps == 3
\* The same for the workspaces of the publish runs.
MaxRunDeps == 2

\* Call-stack budget of the process, in activations of release_order_inner;
\* the resolver never needs it all.
MaxDepth == MaxPkgs * MaxPkgs + 1

VARIABLES
    metadata,   \* self.metadata.workspace_packages(): sequence of Package
    packages,   \* the slice handed to release_order
    root,       \* position of `for p in packages` in release_order
    order,      \* `order`: Vec<&Package>
    passed,     \* `passed`: Vec<&Package>
    stack,      \* open activations of release_order_inner, outermost first
    result,     \* of release_order: "running", "ok", "err" or "overflow"
    error,      \* <<dep.name, pkg.name>> of the ensure! message, or <<>>
    pc,         \* position of Publish::run
    cmds,       \* cargo commands issued so far, with their outcomes
    next,       \* position of `for package in &packages` in Publish::run
    runResult   \* of Publish::run: "running", "ok" or "err"

vars == <<metadata, packages, root, order, passed, stack, result, error,
          pc, cmds, next, runResult>>

runVars == <<pc, cmds, next, runResult>>

----
\* Helpers.

Range(s) == {s[i] : i \in 1..Len(s)}

SeqNames(s) == [i \in 1..Len(s) |-> s[i].name]

Names(s) == {s[i].name : i \in 1..Len(s)}

Min(S) == CHOOSE x \in S : \A y \in S : x <= y

\* Dependency names that may be declared: every possible package name and 0.
DepNames == 0..MaxPkgs

\* The ways to split k dependency entries among n packages: the number of
\* entries each package declares.
Splits(n, k) ==
    LET Sum[i \in 0..n, f \in [1..n -> 0..k]] ==
            IF i = 0 THEN 0 ELSE f[i] + Sum[i - 1, f]
    IN  {f \in [1..n -> 0..k] : Sum[n, f] = k}

\* Number of entries declared by the packages before package i.
Offset(lens, i) ==
    LET Sum[j \in 0..(i - 1)] == IF j = 0 THEN 0 ELSE lens[j] + Sum[j - 1]
    IN  Sum[i - 1]

\* The workspace of n uniquely named packages whose dependency lists are the
\* consecutive pieces, of lengths lens, of the list of names flat.
Workspace(n, flat, lens, flags) ==
    [i \in 1..n |->
        [name |-> i,
         dependencies |-> SubSeq(flat, Offset(lens, i) + 1, Offset(lens, i) + lens[i]),
         publish |-> flags[i]]]

\* metadata is a workspace of at most MaxPkgs packages with at most e
\* dependency entries in total and publish flags drawn from flagSet.
IsWorkspace(e, flagSet) ==
    \E n \in 0..MaxPkgs, k \in 0..e :
        \E flat \in [1..k -> DepNames], lens \in Splits(n, k), flags \in [1..n -> flagSet] :
            metadata = Workspace(n, flat, lens, flags)

----
\* mod release_order

is_package_in(pkg, pkgs) == \E i \in 1..Len(pkgs) : pkgs[i].name = pkg.name

\* Faulty variant of find: the current package is not excluded.
find_with_self(pkgs, pkg, d) ==
    LET hits == {i \in 1..Len(pkgs) : d = pkgs[i].name}
    IN  IF hits = {} THEN <<>> ELSE <<pkgs[Min(hits)]>>

\* Faulty variant of find: `==` for `!=`, only the current package matches.
find_only_self(pkgs, pkg, d) ==
    LET hits == {i \in 1..Len(pkgs) : d = pkgs[i].name /\ pkgs[i].name = pkg.name}
    IN  IF hits = {} THEN <<>> ELSE <<pkgs[Min(hits)]>>

\* packages.iter().find(|p| d.name == p.name && p.name != pkg.name):
\* the first match as a sequence of length one, or <<>> for None.
find(pkgs, pkg, d) ==
    LET hits == {i \in 1..Len(pkgs) : d = pkgs[i].name /\ pkgs[i].name # pkg.name}
    IN  IF hits = {} THEN <<>> ELSE <<pkgs[Min(hits)]>>

\* Faulty variant of dependency_at: the dependencies are walked last to first.
dependency_at_reversed(pkg, d) == pkg.dependencies[Len(pkg.dependencies) + 1 - d]

\* The dependency the loop of line 81 examines in its d-th iteration.
dependency_at(pkg, d) == pkg.dependencies[d]

\* Faulty variant of circular_dependency: the ensure! is missing.
circular_dependency_unchecked(dep) == FALSE

\* The condition under which the ensure! of lines 88-93 fails.
circular_dependency(dep) == is_package_in(dep, passed)

\* Faulty variant of release_order_inner: a package already in `order` is visited
\* again.
release_order_inner_revisit(pkg, callers) ==
    IF Len(callers) >= MaxDepth
    THEN /\ result' = "overflow"
         /\ stack' = <<>>
         /\ UNCHANGED passed
    ELSE /\ passed' = Append(passed, pkg)
         /\ stack' = Append(callers, [pkg |-> pkg, d |-> 1])
         /\ UNCHANGED result

\* A call release_order_inner(packages, pkg, order, passed) up to line 79;
\* `callers` is the stack of the activations that wait for its return.
release_order_inner(pkg, callers) ==
    IF is_package_in(pkg, order)
    THEN /\ stack' = callers
         /\ UNCHANGED <<passed, result>>
    ELSE IF Len(callers) >= MaxDepth
    THEN /\ result' = "overflow"
         /\ stack' = <<>>
         /\ UNCHANGED passed
    ELSE /\ passed' = Append(passed, pkg)
         /\ stack' = Append(callers, [pkg |-> pkg, d |-> 1])
         /\ UNCHANGED result

\* release_order, one iteration of `for p in packages`.
ReleaseOrderLoop ==
    /\ pc = "release_order" /\ result = "running"
    /\ stack = <<>>
    /\ root <= Len(packages)
    /\ root' = root + 1
    /\ release_order_inner(packages[root], <<>>)
    /\ UNCHANGED <<metadata, packages, order, error, runVars>>

\* release_order, `Ok(order)`.
ReleaseOrderReturn ==
    /\ pc = "release_order" /\ result = "running"
    /\ stack = <<>>
    /\ root > Len(packages)
    /\ result' = "ok"
    /\ UNCHANGED <<metadata, packages, root, order, passed, stack, error, runVars>>

\* release_order_inner, one iteration of `for d in &pkg.dependencies`.
InnerDependency ==
    /\ pc = "release_order" /\ result = "running"
    /\ stack # <<>>
    /\ LET top == stack[Len(stack)]
           pkg == top.pkg
       IN  /\ top.d <= Len(pkg.dependencies)
           /\ LET dep == find(packages, pkg, dependency_at(pkg, top.d))
                  callers == [stack EXCEPT ![Len(stack)].d = top.d + 1]
              IN  IF dep = <<>>
                  THEN /\ stack' = callers
                       /\ UNCHANGED <<passed, result, error>>
                  ELSE IF circular_dependency(dep[1])
                  THEN /\ result' = "err"
                       /\ error' = <<dep[1].name, pkg.name>>
                       /\ stack' = <<>>
                       /\ UNCHANGED passed
                  ELSE /\ release_order_inner(dep[1], callers)
                       /\ UNCHANGED error
    /\ UNCHANGED <<metadata, packages, root, order, runVars>>

\* Faulty variant of InnerFinish: the package is put at the front of `order`.
InnerFinish_prepend ==
    /\ pc = "release_order" /\ result = "running"
    /\ stack # <<>>
    /\ LET top == stack[Len(stack)]
       IN  /\ top.d > Len(top.pkg.dependencies)
           /\ order' = <<top.pkg>> \o order
    /\ passed' = <<>>
    /\ stack' = SubSeq(stack, 1, Len(stack) - 1)
    /\ UNCHANGED <<metadata, packages, root, result, error, runVars>>

\* Faulty variant of InnerFinish: `passed` is never emptied.
InnerFinish_keep_passed ==
    /\ pc = "release_order" /\ result = "running"
    /\ stack # <<>>
    /\ LET top == stack[Len(stack)]
       IN  /\ top.d > Len(top.pkg.dependencies)
           /\ order' = Append(order, top.pkg)
    /\ stack' = SubSeq(stack, 1, Len(stack) - 1)
    /\ UNCHANGED <<metadata, packages, root, passed, result, error, runVars>>

\* release_order_inner, after the loop: order.push(pkg); passed.clear(); Ok(()).
InnerFinish ==
    /\ pc = "release_order" /\ result = "running"
    /\ stack # <<>>
    /\ LET top == stack[Len(stack)]
       IN  /\ top.d > Len(top.pkg.dependencies)
           /\ order' = Append(order, top.pkg)
    /\ passed' = <<>>
    /\ stack' = SubSeq(stack, 1, Len(stack) - 1)
    /\ UNCHANGED <<metadata, packages, root, result, error, runVars>>

NextResolve ==
    \/ ReleaseOrderLoop
    \/ ReleaseOrderReturn
    \/ InnerDependency
    \/ InnerFinish

\* A call of release_order on an arbitrary slice of uniquely named packages
\* with at most e dependency entries.
InitCall(e) ==
    /\ IsWorkspace(e, {TRUE})
    /\ packages = metadata
    /\ root = 1
    /\ order = <<>>
    /\ passed = <<>>
    /\ stack = <<>>
    /\ result = "running"
    /\ error = <<>>
    /\ pc = "release_order"
    /\ cmds = <<>>
    /\ next = 1
    /\ runResult = "running"

Init == InitCall(MaxDeps)

Spec == Init /\ [][NextResolve]_vars

InitFair == InitCall(MaxFairDeps)

\* The resolver is sequential code: it keeps running until it returns.
FairSpec == InitFair /\ [][NextResolve]_vars /\ WF_vars(NextResolve)

----
\* impl Publish

\* Faulty variant of get_packages: the packages are not filtered.
get_packages_all(ws) == ws

\* self.metadata.workspace_packages().into_iter().filter(|p| p.publish.is_none())
get_packages(ws) == SelectSeq(ws, LAMBDA p : p.publish)

\* run, lines 31-32: the packages to release are handed to release_order.
RunReleaseOrder ==
    /\ pc = "run"
    /\ packages' = get_packages(metadata)
    /\ pc' = "release_order"
    /\ UNCHANGED <<metadata, root, order, passed, stack, result, error, cmds, next, runResult>>

\* run, line 32: the `?` on the error of release_order (or the process dying in it).
RunReleaseOrderFailed ==
    /\ pc = "release_order"
    /\ result \in {"err", "overflow"}
    /\ pc' = "done"
    /\ runResult' = "err"
    /\ UNCHANGED <<metadata, packages, root, order, passed, stack, result, error, cmds, next>>

\* Faulty variant of RunCheck: the outcome of the check is dropped.
RunCheck_unchecked ==
    /\ pc = "release_order"
    /\ result = "ok"
    /\ \E ok \in BOOLEAN :
        /\ cmds' = Append(cmds, [cmd |-> "check", ok |-> ok])
        /\ pc' = "publish" /\ UNCHANGED runResult
    /\ UNCHANGED <<metadata, packages, root, order, passed, stack, result, error, next>>

\* run, lines 33-36: `cargo check --all-features --all-targets`, which the
\* environment lets succeed or fail.
RunCheck ==
    /\ pc = "release_order"
    /\ result = "ok"
    /\ \E ok \in BOOLEAN :
        /\ cmds' = Append(cmds, [cmd |-> "check", ok |-> ok])
        /\ IF ok
           THEN pc' = "publish" /\ UNCHANGED runResult
           ELSE pc' = "done" /\ runResult' = "err"
    /\ UNCHANGED <<metadata, packages, root, order, passed, stack, result, error, next>>

\* run, lines 39-41: one iteration of `for package in &packages`, the names
\* of `order`; the environment lets the publish succeed or fail.
RunPublish ==
    /\ pc = "publish"
    /\ next <= Len(order)
    /\ \E ok \in BOOLEAN :
        /\ cmds' = Append(cmds, [cmd |-> "publish", package |-> order[next].name, ok |-> ok])
        /\ IF ok
           THEN next' = next + 1 /\ UNCHANGED <<pc, runResult>>
           ELSE pc' = "done" /\ runResult' = "err" /\ UNCHANGED next
    /\ UNCHANGED <<metadata, packages, root, order, passed, stack, result, error>>

\* run, lines 42-43: every package is published, Ok(()).
RunReturn ==
    /\ pc = "publish"
    /\ next > Len(order)
    /\ pc' = "done"
    /\ runResult' = "ok"
    /\ UNCHANGED <<metadata, packages, root, order, passed, stack, result, error, cmds, next>>

NextRun ==
    \/ RunReleaseOrder
    \/ ReleaseOrderLoop
    \/ ReleaseOrderReturn
    \/ InnerDependency
    \/ InnerFinish
    \/ RunReleaseOrderFailed
    \/ RunCheck
    \/ RunPublish
    \/ RunReturn

\* A Publish value as Publish::new leaves it: the workspace metadata is
\* read, nothing is resolved and no command is issued.
InitRun ==
    /\ IsWorkspace(MaxRunDeps, BOOLEAN)
    /\ packages = <<>>
    /\ root = 1
    /\ order = <<>>
    /\ passed = <<>>
    /\ stack = <<>>
    /\ result = "running"
    /\ error = <<>>
    /\ pc = "run"
    /\ cmds = <<>>
    /\ next = 1
    /\ runResult = "running"

SpecRun == InitRun /\ [][NextRun]_vars

----
\* The dependency graph the properties speak about.

\* The in-scope dependencies of p: the declared names that another package
\* of pkgs carries.
InScopeDeps(p, pkgs) ==
    {d \in Range(p.dependencies) : d # p.name /\ d \in Names(pkgs)}

\* The names of the in-scope dependencies of the packages named in S.
DepsOf(pkgs, S) ==
    UNION {InScopeDeps(pkgs[i], pkgs) : i \in {j \in 1..Len(pkgs) : pkgs[j].name \in S}}

\* S and everything the packages named in S depend on, directly or not.
RECURSIVE Reach(_, _)
Reach(pkgs, S) ==
    LET T == S \cup DepsOf(pkgs, S)
    IN  IF T = S THEN S ELSE Reach(pkgs, T)

\* Package a depends on package b through one or more dependency edges.
DependsOn(pkgs, a, b) == b \in Reach(pkgs, DepsOf(pkgs, {a}))

HasCycle(pkgs) == \E a \in Names(pkgs) : DependsOn(pkgs, a, a)

\* a and b depend on each other directly.
DirectCycle(pkgs, a, b) == a \in DepsOf(pkgs, {b}) /\ b \in DepsOf(pkgs, {a})

\* The textbook depth-first traversal: post-order emission, an on-path set from
\* which only the completed node is removed, roots in input order and
\* dependencies in declared order.  st = [order, onpath, err].
RECURSIVE StdVisit(_, _, _)
RECURSIVE StdDeps(_, _, _, _)
StdVisit(pkgs, p, st) ==
    IF st.err \/ p.name \in Range(st.order)
    THEN st
    ELSE LET s1 == StdDeps(pkgs, p, 1, [st EXCEPT !.onpath = @ \cup {p.name}])
         IN  IF s1.err
             THEN s1
             ELSE [order |-> Append(s1.order, p.name),
                   onpath |-> s1.onpath \ {p.name},
                   err |-> FALSE]

StdDeps(pkgs, p, d, st) ==
    IF st.err \/ d > Len(p.dependencies)
    THEN st
    ELSE LET name == p.dependencies[d]
             hits == {i \in 1..Len(pkgs) : pkgs[i].name = name /\ name # p.name}
         IN  IF hits = {}
             THEN StdDeps(pkgs, p, d + 1, st)
             ELSE IF name \in st.onpath
             THEN [st EXCEPT !.err = TRUE]
             ELSE StdDeps(pkgs, p, d + 1, StdVisit(pkgs, pkgs[Min(hits)], st))

RECURSIVE StdRoots(_, _, _)
StdRoots(pkgs, r, st) ==
    IF r > Len(pkgs) THEN st ELSE StdRoots(pkgs, r + 1, StdVisit(pkgs, pkgs[r], st))

StdDfs(pkgs) == StdRoots(pkgs, 1, [order |-> <<>>, onpath |-> {}, err |-> FALSE])

Returned == result # "running"

OnStack == {stack[i].pkg.name : i \in 1..Len(stack)}

\* The publish commands issued so far, in order.
Publishes == SelectSeq(cmds, LAMBDA c : c.cmd = "publish")

----
\* Properties of release_order (specification Spec) and of Publish::run
\* (specification SpecRun).

\* C1: at every point of a release_order call, and in its result, every
\* package in `order` is preceded in `order` by each of its in-scope
\* dependencies.
C1_DepsPrecede ==
    \A i \in 1..Len(order) :
        \A d \in InScopeDeps(order[i], packages) :
            \E j \in 1..(i - 1) : order[j].name = d

\* An order of three packages was returned that is not the input order.
C1_Witness ==
    /\ result = "ok"
    /\ Len(order) = MaxPkgs
    /\ SeqNames(order) # SeqNames(packages)
    /\ \E i \in 1..Len(order) : Cardinality(InScopeDeps(order[i], packages)) >= 2

\* C2: on an input without a dependency cycle release_order returns a
\* permutation of the input: every input package exactly once, nothing else.
C2_Permutation ==
    (Returned /\ ~HasCycle(packages)) =>
        /\ result = "ok"
        /\ Len(order) = Len(packages)
        /\ Names(order) = Names(packages)
        /\ \A i \in 1..Len(order) : order[i] \in Range(packages)

\* A package that two others depend on, and that is a later root, was
\* emitted once.
C2_Witness ==
    /\ result = "ok"
    /\ \E i, j, k \in 1..Len(packages) :
        /\ i < j /\ j < k
        /\ packages[k].name \in InScopeDeps(packages[i], packages)
        /\ packages[k].name \in InScopeDeps(packages[j], packages)

\* C3: on an input whose dependency graph has a cycle, release_order returns
\* the circular-dependency error and never an ordered list.
C3_CycleRejected ==
    (Returned /\ HasCycle(packages)) => (result = "err" /\ error # <<>>)

\* A cycle through three packages was rejected.
C3_Witness ==
    /\ result = "err"
    /\ HasCycle(packages)
    /\ \A a, b \in Names(packages) : ~DirectCycle(packages, a, b)

\* C4: on an input whose dependency graph has no cycle, release_order never
\* reports a circular dependency: self-dependencies, outside dependencies and
\* shared dependencies are no cycles.
C4_NoSpuriousCycle ==
    (result = "err" \/ error # <<>>) => HasCycle(packages)

\* An input with a self-dependency and an outside dependency was ordered.
C4_Witness ==
    /\ result = "ok"
    /\ \E i \in 1..Len(packages) : packages[i].name \in Range(packages[i].dependencies)
    /\ \E i \in 1..Len(packages) :
        \E d \in Range(packages[i].dependencies) : d \notin Names(packages)
    /\ DepsOf(packages, Names(packages)) # {}

\* C5: every call of release_order ends, with the ordered list or with the
\* circular-dependency error.
C5_Terminates == <>(result \in {"ok", "err"})

\* A package is being visited twice on the same branch, which the emptied
\* `passed` allows.
C5_Witness ==
    \E i, j \in 1..Len(stack) : i < j /\ stack[i].pkg.name = stack[j].pkg.name

\* C6: on an input without a cycle the returned sequence is the post-order of
\* the textbook depth-first traversal, roots in input order and dependencies
\* in declared order.
C6_IsDfsPostOrder ==
    (Returned /\ ~HasCycle(packages)) =>
        (result = "ok" /\ SeqNames(order) = StdDfs(packages).order)

\* A (3), B -> A (2), C -> A (1) given as [C, B, A] yields [A, C, B].
C6_Witness ==
    /\ result = "ok"
    /\ Len(packages) = 3
    /\ packages[1].dependencies = <<3>>
    /\ packages[2].dependencies = <<3>>
    /\ packages[3].dependencies = <<>>
    /\ SeqNames(order) = <<3, 1, 2>>

\* C7: a run whose resolution fails issues no command at all, and a run whose
\* `cargo check` fails issues no publish command.
C7_NoCommandAfterFailure ==
    /\ result # "ok" => cmds = <<>>
    /\ \A i \in 1..Len(cmds) :
        (cmds[i].cmd = "check" /\ ~cmds[i].ok) =>
            /\ i = Len(cmds)
            /\ pc = "done" /\ runResult = "err"
    /\ \A i \in 1..Len(cmds) :
        cmds[i].cmd = "publish" => (cmds[1].cmd = "check" /\ cmds[1].ok /\ i > 1)

\* The check failed for a resolved order of several packages.
C7_Witness ==
    /\ pc = "done"
    /\ Len(order) >= 2
    /\ cmds = <<[cmd |-> "check", ok |-> FALSE]>>

\* C8: the publish commands issued are a prefix of the resolved order of the
\* non-excluded packages, at most one per package; all of it when the run
\* succeeds, and nothing follows the first failing publish.  So every
\* published package has its in-scope dependencies published before it, and
\* no excluded package is published.
C8_PublishesFollowOrder ==
    LET pubs == Publishes
    IN  /\ pubs # <<>> => (result = "ok" /\ packages = get_packages(metadata))
        /\ Len(pubs) <= Len(order)
        /\ \A i \in 1..Len(pubs) : pubs[i].package = order[i].name
        /\ \A i, j \in 1..Len(pubs) : pubs[i].package = pubs[j].package => i = j
        /\ \A i \in 1..(Len(pubs) - 1) : pubs[i].ok
        /\ (pubs # <<>> /\ ~pubs[Len(pubs)].ok) =>
               (pc = "done" /\ runResult = "err" /\ cmds[Len(cmds)].cmd = "publish")
        /\ runResult = "ok" =>
               (Len(pubs) = Len(order) /\ \A i \in 1..Len(pubs) : pubs[i].ok)
        /\ \A i \in 1..Len(pubs) :
               \A k \in 1..Len(metadata) :
                   metadata[k].name = pubs[i].package =>
                       /\ metadata[k].publish
                       /\ \A d \in InScopeDeps(metadata[k], get_packages(metadata)) :
                              \E j \in 1..(i - 1) : pubs[j].package = d /\ pubs[j].ok

\* A run published two packages, the dependency first although it comes
\* later in the workspace, and left out an excluded package.
C8_Witness ==
    /\ runResult = "ok"
    /\ Len(Publishes) = 2
    /\ Len(metadata) = 3
    /\ Publishes[1].package > Publishes[2].package
    /\ Publishes[1].package \in InScopeDeps(metadata[Publishes[2].package], packages)

\* C9: when the circular-dependency error names (dep, pkg), pkg is the
\* package being visited, dep is another in-scope package that pkg declares,
\* and the visit of dep is still open below it: a back-edge of a real cycle.
C9_ErrorIsBackEdge ==
    [][(result = "running" /\ result' = "err") =>
        /\ stack # <<>>
        /\ Len(error') = 2
        /\ LET dep == error'[1]
               pkg == error'[2]
               top == stack[Len(stack)]
           IN  /\ top.pkg.name = pkg
               /\ dep # pkg
               /\ dep \in Names(packages)
               /\ dep \in Range(top.pkg.dependencies)
               /\ \E i \in 1..(Len(stack) - 1) : stack[i].pkg.name = dep
               /\ DependsOn(packages, dep, pkg)]_vars

\* An error was raised after some package had been completed.
C9_Witness ==
    /\ result = "err"
    /\ Len(error) = 2
    /\ order # <<>>

\* C10: whenever a dependency is tested against `passed`, `passed` holds
\* exactly the packages whose visits are open.
C10_PassedIsOnPath ==
    (/\ pc = "release_order" /\ result = "running"
     /\ stack # <<>>
     /\ stack[Len(stack)].d <= Len(stack[Len(stack)].pkg.dependencies)
     /\ find(packages, stack[Len(stack)].pkg,
             dependency_at(stack[Len(stack)].pkg, stack[Len(stack)].d)) # <<>>)
        => Names(passed) = OnStack

====
